---- MODULE Spec2Model ----
(***************************************************************************)
(* mongo-lock: distributed mutually exclusive locks in MongoDB.            *)
(*                                                                         *)
(* The model has the "locks" collection (a bag of documents {_id,          *)
(* expiresAt} with the unique index on _id that every MongoDB collection   *)
(* has), the TTL index created by prepare_database, the wall clock, and    *)
(* the Lock values held by the client processes.  Every action is one      *)
(* call of the crate (try_acquire, release, drop, prepare_database) or one *)
(* step of the environment (clock tick, TTL monitor sweep).  A call is one *)
(* step because it makes at most one store operation, which the store      *)
(* applies atomically; the calls of all processes interleave.              *)
(*                                                                         *)
(* Spec lets the callers use every key of Keys.  SpecOneKey has them all   *)
(* contend for one key: no store operation of the crate reads or writes a  *)
(* document of another key than its own, so the properties of one key are  *)
(* checked there.  SpecTwoKeys is Spec with every delete answered, which   *)
(* keeps the runs with two keys and more Lock values small.  SpecSkew is   *)
(* SpecOneKey with callers of try_acquire whose clocks are ahead of the    *)
(* others'.                                                                *)
(***************************************************************************)
EXTENDS Integers, FiniteSets, Bags, TLC

\* ---------------------------------------------------------------- bounds
MaxTime == 1          \* the clock runs from 0 to MaxTime
MaxTtl == 1           \* lease durations 0..MaxTtl
MaxHandles == 2       \* Lock values alive at the same time
MaxSkew == 1          \* how far a process's clock can be ahead

Keys == {"alpha", "beta"}     \* the lock keys in use
Ttls == 0..MaxTtl
Skews == 0..MaxSkew           \* by how much a process's clock is ahead

\* E11000, the code MongoDB gives a duplicate key write error.
DUPLICATE_KEY == 11000
\* Some other write error code (the value only has to differ from 11000).
OtherWriteErrorCode == DUPLICATE_KEY + 1

\* How a store call can fail: "none" the call is answered; "reject" the
\* store refuses the write (a write error with another code, an auth or
\* connection failure before the write) and applies nothing; "lost" the
\* write is applied but the driver still returns an error (write concern
\* error, time-out or broken connection while waiting for the reply).
Faults == {"none", "reject", "lost"}

VARIABLES
    clock,      \* wall-clock time, in the store's timestamp unit
    docs,       \* the documents of the "locks" collection
    indexes,    \* the secondary indexes of the collection
    locks,      \* the bag of Lock values that exist
    last        \* the call made by the last step and what it returned

vars == <<clock, docs, indexes, locks, last>>

\* A document of the collection.
Doc(key, expires_at) == [_id |-> key, expiresAt |-> expires_at]

\* The collection is a bag of documents: nothing but its unique index on
\* _id keeps two documents with the same _id out of it.
Put(bag, x) == bag (+) SetToBag({x})
Take(bag, x) == bag (-) SetToBag({x})
DocsOf(key) == {d \in BagToSet(docs) : d._id = key}
LiveDocsOf(key) == {d \in DocsOf(key) : d.expiresAt > clock}
\* Number of documents among the set S, copies counted.
Count(S) == BagCardinality([d \in S |-> docs[d]])

\* struct Lock { mongo, id, acquired }.  Three fields are history kept for
\* the properties: expiresAt, the expiry of the lease the value was given
\* (0 once the value has given the lock up); released, whether release has
\* been called explicitly on the value; and ahead, by how much the clock of
\* the process that got the value is ahead (0 once the lock is given up).
NewLock(key, expires_at) ==
    [id |-> key, acquired |-> TRUE, expiresAt |-> expires_at, released |-> FALSE,
     ahead |-> 0]

\* The Lock values that exist.
Locks == BagToSet(locks)

\* The record of a step.  op: the call; key: its subject; res: what it
\* returned; sop: the store operation it issued ("none" if none); reply:
\* what the driver answered; held, released, live: of the Lock value the
\* call was made on, as they were before the call: its acquired flag,
\* whether release had been called on it explicitly, and whether its lease
\* was unexpired by the clock of its process.
Last(op, key, res, sop, reply, l) ==
    [op |-> op, key |-> key, res |-> res, sop |-> sop, reply |-> reply,
     held |-> l.acquired, released |-> l.released,
     live |-> l.acquired /\ clock + l.ahead < l.expiresAt]

\* Stands for the Lock value in the record of a step that is made on none.
NoLock ==
    [id |-> "", acquired |-> FALSE, expiresAt |-> 0, released |-> FALSE,
     ahead |-> 0]

\* What the driver answers to a store call.
NoReply == [kind |-> "none", upserted |-> FALSE, n |-> 0, code |-> 0]
OkReply(upserted, n) == [kind |-> "ok", upserted |-> upserted, n |-> n, code |-> 0]
WriteErrorReply(code) == [kind |-> "write_error", upserted |-> FALSE, n |-> 0, code |-> code]
OtherErrorReply == [kind |-> "error", upserted |-> FALSE, n |-> 0, code |-> 0]

\* ------------------------------------------------------------ the clock
\* The system time read by a process whose clock is ahead by skew.
SystemTimeNow(skew) ==
    clock + skew

\* util::now_and_expires_at(ttl) in a process whose clock is ahead by skew:
\* one reading of its clock and the expiry ttl later.
now_and_expires_at_ahead(ttl, skew) ==
    [now |-> SystemTimeNow(skew), expires_at |-> SystemTimeNow(skew) + ttl]

\* util::now_and_expires_at(ttl) with synchronized clocks: the processes
\* all read `clock`.
now_and_expires_at(ttl) ==
    now_and_expires_at_ahead(ttl, 0)

\* ------------------------------------------------------------ the store
\* The documents the filter {"_id": key, "expiresAt": {"$lte": now}} matches.
QueryMatches(key, now) ==
    {d \in DocsOf(key) : d.expiresAt <= now}

\* update_one against a collection whose lock key is not under a unique
\* index (the key kept in a field other than _id): with no match the upsert
\* always inserts.
UpdateOneNoUniqueIndex(key, now, expires_at) ==
    IF QueryMatches(key, now) # {}
    THEN LET d == CHOOSE x \in QueryMatches(key, now) : TRUE
         IN  IF d.expiresAt = expires_at
             THEN [docs |-> docs, reply |-> OkReply(FALSE, 0)]
             ELSE [docs |-> Put(Take(docs, d), Doc(key, expires_at)),
                   reply |-> OkReply(FALSE, 1)]
    ELSE [docs |-> Put(docs, Doc(key, expires_at)),
          reply |-> OkReply(TRUE, 0)]

\* update_one(query, update, upsert).  A matching document gets expiresAt
\* set (modified_count is 0 when the value is already the one written); with
\* no match the upsert inserts {_id: key, expiresAt}, which the unique index
\* on _id rejects with E11000 when a document with this _id exists.
UpdateOne(key, now, expires_at) ==
    IF QueryMatches(key, now) # {}
    THEN LET d == CHOOSE x \in QueryMatches(key, now) : TRUE
         IN  IF d.expiresAt = expires_at
             THEN [docs |-> docs, reply |-> OkReply(FALSE, 0)]
             ELSE [docs |-> Put(Take(docs, d), Doc(key, expires_at)),
                   reply |-> OkReply(FALSE, 1)]
    ELSE IF DocsOf(key) # {}
         THEN [docs |-> docs, reply |-> WriteErrorReply(DUPLICATE_KEY)]
         ELSE [docs |-> Put(docs, Doc(key, expires_at)),
               reply |-> OkReply(TRUE, 0)]

\* A match that looks at modified_count alone.
AcquireResultModifiedOnly(reply) ==
    IF reply.kind = "ok"
    THEN IF reply.n = 1 THEN "Some" ELSE "None"
    ELSE IF reply.kind = "write_error" /\ reply.code = DUPLICATE_KEY
         THEN "None"
         ELSE "Err"

\* A match that does not single out the duplicate key code.
AcquireResultNoDuplicateKey(reply) ==
    IF reply.kind = "ok"
    THEN IF reply.upserted \/ reply.n = 1 THEN "Some" ELSE "None"
    ELSE "Err"

\* A match that asks for an insert and a modification at once.
AcquireResultBothRequired(reply) ==
    IF reply.kind = "ok"
    THEN IF reply.upserted /\ reply.n = 1 THEN "Some" ELSE "None"
    ELSE IF reply.kind = "write_error" /\ reply.code = DUPLICATE_KEY
         THEN "None"
         ELSE "Err"

\* The match on the result of update_one in try_acquire: "Some" is
\* Ok(Some(Lock)), "None" is Ok(None), "Err" is Err(err).
AcquireResult(reply) ==
    IF reply.kind = "ok"
    THEN IF reply.upserted \/ reply.n = 1 THEN "Some" ELSE "None"
    ELSE IF reply.kind = "write_error" /\ reply.code = DUPLICATE_KEY
         THEN "None"
         ELSE "Err"

\* delete_one with a filter on a field the documents do not have: nothing
\* matches.
DeleteOneWrongField(key) ==
    [docs |-> docs, reply |-> OkReply(FALSE, 0)]

\* delete_one with an empty filter: removes one document, whatever its _id.
DeleteOneAnyKey(key) ==
    IF BagToSet(docs) # {}
    THEN LET d == CHOOSE x \in BagToSet(docs) : TRUE
         IN  [docs |-> Take(docs, d), reply |-> OkReply(FALSE, 1)]
    ELSE [docs |-> docs, reply |-> OkReply(FALSE, 0)]

\* delete_one({"_id": key}): removes one document with this _id, if any.
DeleteOne(key) ==
    IF DocsOf(key) # {}
    THEN LET d == CHOOSE x \in DocsOf(key) : TRUE
         IN  [docs |-> Take(docs, d), reply |-> OkReply(FALSE, 1)]
    ELSE [docs |-> docs, reply |-> OkReply(FALSE, 0)]

\* What the driver hands back for a store call that would change the
\* collection to r.docs and answer r.reply, under the given fault.
Faulty(r, fault) ==
    CASE fault = "none" -> r
      [] fault = "reject" ->
            [docs |-> docs, reply |-> WriteErrorReply(OtherWriteErrorCode)]
      [] fault = "lost" -> [docs |-> r.docs, reply |-> OtherErrorReply]

\* The driver returned an error other than the duplicate key write error.
StoreFailed(reply) ==
    \/ reply.kind = "error"
    \/ reply.kind = "write_error" /\ reply.code # DUPLICATE_KEY

\* ----------------------------------------------------------- operations
\* Lock::try_acquire(mongo, key, ttl), called by a process whose clock is
\* ahead by skew.
TryAcquireAhead(key, ttl, fault, skew) ==
    /\ BagCardinality(locks) < MaxHandles
    /\ LET t == now_and_expires_at_ahead(ttl, skew)
           r == Faulty(UpdateOne(key, t.now, t.expires_at), fault)
           res == AcquireResult(r.reply)
       IN  /\ docs' = r.docs
           /\ locks' = IF res = "Some"
                       THEN Put(locks, [NewLock(key, t.expires_at)
                                           EXCEPT !.ahead = skew])
                       ELSE locks
           /\ last' = Last("try_acquire", key, res, "update_one", r.reply, NoLock)
    /\ UNCHANGED <<clock, indexes>>

\* Lock::try_acquire(mongo, key, ttl), called by any process, the clocks
\* synchronized.
TryAcquire(key, ttl, fault) ==
    TryAcquireAhead(key, ttl, fault, 0)

\* delete_one on the key and the expiry this Lock wrote: a release that
\* removes the document only when it is still the one of this acquisition.
DeleteOwn(l) ==
    IF \E d \in DocsOf(l.id) : d.expiresAt = l.expiresAt
    THEN [docs |-> Take(docs, Doc(l.id, l.expiresAt)), reply |-> OkReply(FALSE, 1)]
    ELSE [docs |-> docs, reply |-> OkReply(FALSE, 0)]

ReleaseBodyOwnLease(l, fault) ==
    IF l.acquired
    THEN LET r == Faulty(DeleteOwn(l), fault)
         IN  IF r.reply.kind = "ok"
             THEN [lock |-> [l EXCEPT !.acquired = FALSE, !.expiresAt = 0, !.ahead = 0],
                   docs |-> r.docs,
                   res |-> IF r.reply.n = 1 THEN "true" ELSE "false",
                   sop |-> "delete_one", reply |-> r.reply]
             ELSE [lock |-> l, docs |-> r.docs, res |-> "Err",
                   sop |-> "delete_one", reply |-> r.reply]
    ELSE [lock |-> l, docs |-> docs, res |-> "false",
          sop |-> "none", reply |-> NoReply]

\* A release that does not look at the acquired flag.
ReleaseBodyNoFlagCheck(l, fault) ==
    LET r == Faulty(DeleteOne(l.id), fault)
    IN  IF r.reply.kind = "ok"
        THEN [lock |-> [l EXCEPT !.acquired = FALSE, !.expiresAt = 0, !.ahead = 0],
              docs |-> r.docs,
              res |-> IF r.reply.n = 1 THEN "true" ELSE "false",
              sop |-> "delete_one", reply |-> r.reply]
        ELSE [lock |-> l, docs |-> r.docs, res |-> "Err",
              sop |-> "delete_one", reply |-> r.reply]

\* A release that reports success whenever the delete was answered.
ReleaseBodyAlwaysTrue(l, fault) ==
    IF l.acquired
    THEN LET r == Faulty(DeleteOne(l.id), fault)
         IN  IF r.reply.kind = "ok"
             THEN [lock |-> [l EXCEPT !.acquired = FALSE, !.expiresAt = 0, !.ahead = 0],
                   docs |-> r.docs, res |-> "true",
                   sop |-> "delete_one", reply |-> r.reply]
             ELSE [lock |-> l, docs |-> r.docs, res |-> "Err",
                   sop |-> "delete_one", reply |-> r.reply]
    ELSE [lock |-> l, docs |-> docs, res |-> "false",
          sop |-> "none", reply |-> NoReply]

\* A release that turns a failed delete into Ok(false).
ReleaseBodySwallowsError(l, fault) ==
    IF l.acquired
    THEN LET r == Faulty(DeleteOne(l.id), fault)
         IN  IF r.reply.kind = "ok"
             THEN [lock |-> [l EXCEPT !.acquired = FALSE, !.expiresAt = 0, !.ahead = 0],
                   docs |-> r.docs,
                   res |-> IF r.reply.n = 1 THEN "true" ELSE "false",
                   sop |-> "delete_one", reply |-> r.reply]
             ELSE [lock |-> l, docs |-> r.docs, res |-> "false",
                   sop |-> "delete_one", reply |-> r.reply]
    ELSE [lock |-> l, docs |-> docs, res |-> "false",
          sop |-> "none", reply |-> NoReply]

\* The body of Lock::release on the Lock value l: the new value of the
\* Lock, the collection, the result and the store call made.
ReleaseBody(l, fault) ==
    IF l.acquired
    THEN LET r == Faulty(DeleteOne(l.id), fault)
         IN  IF r.reply.kind = "ok"
             THEN [lock |-> [l EXCEPT !.acquired = FALSE, !.expiresAt = 0, !.ahead = 0],
                   docs |-> r.docs,
                   res |-> IF r.reply.n = 1 THEN "true" ELSE "false",
                   sop |-> "delete_one", reply |-> r.reply]
             ELSE [lock |-> l, docs |-> r.docs, res |-> "Err",
                   sop |-> "delete_one", reply |-> r.reply]
    ELSE [lock |-> l, docs |-> docs, res |-> "false",
          sop |-> "none", reply |-> NoReply]

\* An explicit call of release on the Lock value l.
Release(l, fault) ==
    /\ BagIn(l, locks)
    /\ fault # "none" => l.acquired
    /\ LET b == ReleaseBody(l, fault)
       IN  /\ docs' = b.docs
           /\ locks' = Put(Take(locks, l), [b.lock EXCEPT !.released = TRUE])
           /\ last' = Last("release", l.id, b.res, b.sop, b.reply, l)
    /\ UNCHANGED <<clock, indexes>>

\* Drop for Lock: self.release().ok(), then the value is gone.
Drop(l, fault) ==
    /\ BagIn(l, locks)
    /\ fault # "none" => l.acquired
    /\ LET b == ReleaseBody(l, fault)
       IN  /\ docs' = b.docs
           /\ locks' = Take(locks, l)
           /\ last' = Last("drop", l.id, "unit", b.sop, b.reply, l)
    /\ UNCHANGED <<clock, indexes>>

\* An index model whose threshold follows the clock instead of being zero.
ExpiryIndexByClock ==
    [keys |-> "expiresAt", expire_after |-> clock]

\* The IndexModel prepare_database builds: keys {"expiresAt": 1} with the
\* option expire_after of zero seconds.
ExpiryIndex ==
    [keys |-> "expiresAt", expire_after |-> 0]

\* create_index(model): an index that exists with the same keys and options
\* is left as it is; the same keys with other options are refused
\* (IndexOptionsConflict); otherwise the index is created.  The n of the
\* reply is the number of indexes the store has built for the call.
CreateIndex(model) ==
    IF model \in indexes
    THEN [indexes |-> indexes, reply |-> OkReply(FALSE, 0)]
    ELSE IF \E i \in indexes : i.keys = model.keys
         THEN [indexes |-> indexes, reply |-> OtherErrorReply]
         ELSE [indexes |-> indexes \cup {model}, reply |-> OkReply(FALSE, 1)]

\* prepare_database(mongo): create_index of the TTL index on expiresAt with
\* expire_after 0, the error of the store handed to the caller by `?`.
PrepareDatabase(fault) ==
    /\ fault # "lost"
    /\ LET r == IF fault = "none"
                THEN CreateIndex(ExpiryIndex)
                ELSE [indexes |-> indexes, reply |-> OtherErrorReply]
       IN  /\ indexes' = r.indexes
           /\ last' = Last("prepare_database", "",
                           IF r.reply.kind = "ok" THEN "unit" ELSE "Err",
                           "create_index", r.reply, NoLock)
    /\ UNCHANGED <<clock, docs, locks>>

\* ---------------------------------------------------------- environment
\* Time passes.
Tick ==
    /\ clock < MaxTime
    /\ clock' = clock + 1
    /\ last' = Last("tick", "", "unit", "none", NoReply, NoLock)
    /\ UNCHANGED <<docs, indexes, locks>>

\* The store's TTL monitor removes one document that a TTL index makes due:
\* its indexed date plus the index's expire_after has passed.  It runs only
\* when such an index exists, and whenever it pleases.
Sweep ==
    /\ \E i \in indexes, d \in BagToSet(docs) :
          /\ i.keys = "expiresAt"
          /\ d.expiresAt + i.expire_after <= clock
          /\ docs' = Take(docs, d)
          /\ last' = Last("sweep", d._id, "unit", "none", NoReply, NoLock)
    /\ UNCHANGED <<clock, indexes, locks>>

\* ------------------------------------------------------- specification
Init ==
    /\ clock = 0
    /\ docs = EmptyBag
    /\ indexes = {}
    /\ locks = EmptyBag
    /\ last = Last("init", "", "unit", "none", NoReply, NoLock)

\* One step of the system when the callers use the keys of K.
NextOn(K) ==
    \/ \E key \in K, ttl \in Ttls, fault \in Faults :
          TryAcquire(key, ttl, fault)
    \/ \E l \in Locks, fault \in Faults : Release(l, fault)
    \/ \E l \in Locks, fault \in Faults : Drop(l, fault)
    \/ \E fault \in Faults : PrepareDatabase(fault)
    \/ Tick
    \/ Sweep

\* The callers contend for any of the keys.
Next == NextOn(Keys)

Spec == Init /\ [][Next]_vars

\* All callers contend for the one key "alpha".
NextOneKey == NextOn({"alpha"})

SpecOneKey == Init /\ [][NextOneKey]_vars

\* The callers contend for any of the keys; the store can fail a
\* try_acquire or a prepare_database, and answers every delete of a release
\* or a drop.
NextTwoKeys ==
    \/ \E key \in Keys, ttl \in Ttls, fault \in Faults :
          TryAcquire(key, ttl, fault)
    \/ \E l \in Locks : Release(l, "none")
    \/ \E l \in Locks : Drop(l, "none")
    \/ \E fault \in Faults : PrepareDatabase(fault)
    \/ Tick
    \/ Sweep

SpecTwoKeys == Init /\ [][NextTwoKeys]_vars

\* All callers contend for the one key "alpha", and the clock of a caller
\* of try_acquire can be ahead of `clock` by any of Skews.
NextSkew ==
    \/ \E ttl \in Ttls, fault \in Faults, skew \in Skews :
          TryAcquireAhead("alpha", ttl, fault, skew)
    \/ \E l \in Locks, fault \in Faults : Release(l, fault)
    \/ \E l \in Locks, fault \in Faults : Drop(l, fault)
    \/ \E fault \in Faults : PrepareDatabase(fault)
    \/ Tick
    \/ Sweep

SpecSkew == Init /\ [][NextSkew]_vars

\* The index models create_index can be given.
IndexModels ==
    [keys : {"expiresAt"}, expire_after : 0..MaxTime]

LockValues ==
    [id : Keys, acquired : BOOLEAN,
     expiresAt : 0..(MaxTime + MaxSkew + MaxTtl),
     released : BOOLEAN, ahead : Skews]

TypeOK ==
    /\ clock \in 0..MaxTime
    /\ indexes \subseteq IndexModels
    /\ \A d \in BagToSet(docs) :
          d._id \in Keys /\ d.expiresAt \in 0..(MaxTime + MaxSkew + MaxTtl)
    /\ Locks \subseteq LockValues
    /\ BagCardinality(locks) <= MaxHandles
\* ------------------------------------------------------------ properties
\* A Lock value for key whose lease is unexpired by the clock of its
\* process and that has been neither released nor dropped.
Holder(l, key) ==
    /\ l.id = key
    /\ l.acquired
    /\ ~l.released
    /\ SystemTimeNow(l.ahead) < l.expiresAt

\* C1.  Mutual exclusion: a try_acquire on a key for which a Lock value
\* exists that is unexpired, not released and not dropped returns no handle.
C1_MutualExclusion ==
    [][(last'.op = "try_acquire" /\ \E l \in Locks : Holder(l, last'.key))
          => last'.res # "Some"]_vars

\* C2.  In every reachable state each key has at most one live document
\* (expiresAt later than the clock), copies counted.
C2_AtMostOneLive ==
    \A key \in Keys : Count(LiveDocsOf(key)) <= 1

\* C2 witness: a try_acquire has just turned the stale document of its key
\* into the one live document of that key.
C2_Witness ==
    /\ last.op = "try_acquire"
    /\ last.reply.kind = "ok" /\ last.reply.n = 1
    /\ Count(LiveDocsOf(last.key)) = 1
    /\ Count(DocsOf(last.key)) = 1

\* C3.  Release matches on the key alone: when a Lock value a whose own
\* lease has run out is released or dropped (the store answering) while
\* another Lock value b of the same key is held and unexpired and the key
\* has a live document, the call removes that document (release returns
\* true), the key is left without a document, and b is still held and
\* unexpired.
C3_ReleaseByKeyAlone ==
    [][\A a \in Locks :
          (/\ a.acquired /\ a.expiresAt <= clock
           /\ \E b \in Locks : Holder(b, a.id)
           /\ LiveDocsOf(a.id) # {}
           /\ (Release(a, "none") \/ Drop(a, "none")))
          => /\ DocsOf(a.id)' = {}
             /\ Count(DocsOf(a.id)) = 1
             /\ last'.op = "release" => last'.res = "true"
             /\ \E b \in Locks' : Holder(b, a.id)']_vars

\* C3 witness: a release made on a held Lock value with an expired lease
\* has returned true and left the key without a document, while another
\* Lock value of the key is held, not released and unexpired.
C3_Witness ==
    /\ last.op = "release" /\ last.res = "true"
    /\ last.held /\ ~last.live
    /\ DocsOf(last.key) = {}
    /\ \E b \in Locks : Holder(b, last.key)
\* A key without a document gets one only by a try_acquire on that key.
OnlyAcquireCreates(key) ==
    (DocsOf(key) = {} /\ DocsOf(key)' # {})
        => (last'.op = "try_acquire" /\ last'.key = key)

\* A try_acquire on a key without a document, the store answering, returns
\* a handle.
FreeKeyIsAcquired(key) ==
    (/\ DocsOf(key) = {}
     /\ last'.op = "try_acquire" /\ last'.key = key
     /\ ~StoreFailed(last'.reply))
        => last'.res = "Some"

\* C4.  Re-acquisition after release: a release that has returned true
\* leaves its key without a document, the key stays so until a try_acquire
\* on it, and that try_acquire (the store answering) returns a handle,
\* whatever the ttl and whatever lease the released Lock value had left.
C4_ReacquireAfterRelease ==
    /\ [](last.op = "release" /\ last.res = "true" => DocsOf(last.key) = {})
    /\ [][\A key \in Keys : OnlyAcquireCreates(key) /\ FreeKeyIsAcquired(key)]_vars

\* C4 witness: a try_acquire has returned a handle right after a release of
\* a live lease of the same key returned true.
C4_Witness ==
    /\ last.op = "try_acquire" /\ last.res = "Some" /\ last.reply.upserted
    /\ \E l \in Locks : l.id = last.key /\ ~l.acquired /\ l.released
\* C5.  Re-acquisition after expiry: a try_acquire on a key whose document
\* is stale (expiresAt <= now, the boundary included), the store answering,
\* returns a handle, swept or not.
C5_ReacquireAfterExpiry ==
    [][(/\ last'.op = "try_acquire"
        /\ LiveDocsOf(last'.key) = {}
        /\ ~StoreFailed(last'.reply))
          => last'.res = "Some"]_vars

\* The drop of a held Lock value whose delete the store answered.
DroppedHeld ==
    last.op = "drop" /\ last.held /\ last.reply.kind = "ok"

\* C6.  Automatic release: the drop of a held Lock value whose delete does
\* not fail leaves the key without a document; the key stays so until a
\* try_acquire on it, and a try_acquire that follows the drop (the store
\* answering) returns a handle, the dropped lease expired or not.
C6_AutomaticRelease ==
    /\ [](DroppedHeld => DocsOf(last.key) = {})
    /\ [][/\ \A key \in Keys : OnlyAcquireCreates(key)
          /\ (/\ DroppedHeld
              /\ last'.op = "try_acquire" /\ last'.key = last.key
              /\ ~StoreFailed(last'.reply))
                => last'.res = "Some"]_vars

\* C6 witness: a Lock value with an unexpired lease has been dropped and
\* its document removed.
C6_Witness ==
    /\ DroppedHeld /\ last.live /\ ~last.released
    /\ last.reply.n = 1
    /\ DocsOf(last.key) = {}

\* C7.  Idempotent release: release on a Lock value that is not acquired
\* returns false, issues no store operation and leaves the collection as it
\* is, whatever document a later acquirer has written for the key.
C7_IdempotentRelease ==
    [][(last'.op = "release" /\ ~last'.held)
          => /\ last'.res = "false"
             /\ last'.sop = "none" /\ last'.reply = NoReply
             /\ docs' = docs]_vars

\* C7 witness: release on a released Lock value has returned false while
\* the key has the live document of a later acquirer.
C7_Witness ==
    /\ last.op = "release" /\ ~last.held /\ last.released
    /\ last.res = "false"
    /\ LiveDocsOf(last.key) # {}
    /\ \E b \in Locks : Holder(b, last.key)

\* C8.  A Lock value issues at most one delete: once an explicit release
\* call has returned, with success or with a store error, the release run
\* at drop issues no store operation.
C8_DropAfterReleaseIsNoOp ==
    (last.op = "drop" /\ last.released) => last.sop = "none"

\* Lock values of the key with acquired set, copies counted.
HeldCount(key) ==
    BagCardinality([l \in {x \in Locks : x.id = key /\ x.acquired} |-> locks[l]])

\* C9.  Release on a held Lock value, the store answering the delete:
\* it returns true if and only if one document was removed, and that is a
\* document of its key; with no document of the key it returns false and
\* removes nothing; either way one Lock value of the key stops being held.
C9_ReleaseResult ==
    [][\A key \in Keys :
          (/\ last'.op = "release" /\ last'.key = key
           /\ last'.held /\ last'.reply.kind = "ok")
          => /\ last'.res \in {"true", "false"}
             /\ last'.res = "true" <=>
                   /\ BagCardinality(docs') = BagCardinality(docs) - 1
                   /\ Count(DocsOf(key))' = Count(DocsOf(key)) - 1
             /\ last'.res = "false" <=> docs' = docs
             /\ DocsOf(key) = {} => (last'.res = "false" /\ docs' = docs)
             /\ HeldCount(key)' = HeldCount(key) - 1]_vars

\* C9 witness: release on a held Lock value has returned false because the
\* key had no document left.
C9_Witness ==
    /\ last.op = "release" /\ last.held /\ last.reply.kind = "ok"
    /\ last.res = "false"

\* C10.  What try_acquire makes of the store's answer: the duplicate key
\* write error and a result with neither an insert nor a modification give
\* Ok(None); every other failure gives Err; none of them makes a Lock value.
C10_ErrorClassification ==
    [][last'.op = "try_acquire"
          => LET reply == last'.reply
             IN  /\ (reply.kind = "write_error" /\ reply.code = DUPLICATE_KEY)
                       => last'.res = "None"
                 /\ (reply.kind = "ok" /\ ~reply.upserted /\ reply.n = 0)
                       => last'.res = "None"
                 /\ (reply.kind = "write_error" /\ reply.code # DUPLICATE_KEY)
                       => last'.res = "Err"
                 /\ reply.kind = "error" => last'.res = "Err"
                 /\ last'.res # "Some" => locks' = locks]_vars

\* C10 witness: a try_acquire has met the duplicate key write error and
\* returned Ok(None).
C10_Witness ==
    /\ last.op = "try_acquire"
    /\ last.reply.kind = "write_error" /\ last.reply.code = DUPLICATE_KEY
    /\ last.res = "None"

\* C11.  Error propagation: a store failure met by an explicit release, by
\* try_acquire or by prepare_database is returned to the caller as Err, and
\* Err is returned for nothing else; a store failure met by the release run
\* at drop is discarded, the drop returning nothing to the caller.
C11_ErrorPropagation ==
    /\ (last.op \in {"release", "try_acquire", "prepare_database"})
          => (last.res = "Err" <=> StoreFailed(last.reply))
    /\ last.op = "drop" => last.res = "unit"

\* C11 witness: a Lock value whose explicit release had failed (it is marked
\* released and still has acquired set) has been dropped, the delete of the
\* drop has failed too, and the drop has returned nothing.
C11_Witness ==
    /\ last.op = "drop" /\ last.released /\ last.held
    /\ StoreFailed(last.reply)
    /\ last.res = "unit"

\* The documents of the key, with their numbers of copies.
RecordsOf(key) ==
    [d \in DocsOf(key) |-> docs[d]]

\* The Lock values of the key, with their numbers of copies.
HandlesOf(key) ==
    [l \in {x \in Locks : x.id = key} |-> locks[l]]

\* What an answered try_acquire(k1, ttl) returns, told from the documents
\* of k1 and the clock alone.
OutcomeFromOwnKey(k1, ttl) ==
    IF \/ DocsOf(k1) = {}
       \/ \E d \in DocsOf(k1) : d.expiresAt <= clock /\ d.expiresAt # clock + ttl
    THEN "Some"
    ELSE "None"

\* C12.  Independence of keys: a try_acquire, release or drop on k1 leaves
\* the documents and the Lock values of every other key k2 as they are; what
\* an answered try_acquire or release on k1 returns is told from the
\* documents of k1 alone, whatever the state of k2; so try_acquire on a free
\* key returns a handle whether the other key is free, held or stale.
C12_KeyIndependence ==
    [][\A k1 \in Keys :
          (last'.key = k1 /\ last'.op \in {"try_acquire", "release", "drop"})
          => /\ \A k2 \in Keys \ {k1} :
                   /\ RecordsOf(k2)' = RecordsOf(k2)
                   /\ HandlesOf(k2)' = HandlesOf(k2)
             /\ \A ttl \in Ttls :
                   TryAcquire(k1, ttl, "none")
                      => last'.res = OutcomeFromOwnKey(k1, ttl)
             /\ (last'.op = "release" /\ last'.held /\ last'.reply.kind = "ok")
                   => (last'.res = "true" <=> DocsOf(k1) # {})
             /\ (/\ DocsOf(k1) = {}
                 /\ last'.op = "try_acquire"
                 /\ ~StoreFailed(last'.reply))
                   => last'.res = "Some"]_vars

\* C12 witness: a try_acquire on a free key has returned a handle while the
\* other key is held with a live document: both keys are held at once.
C12_Witness ==
    /\ last.op = "try_acquire" /\ last.res = "Some" /\ last.reply.upserted
    /\ \A key \in Keys :
          /\ Count(LiveDocsOf(key)) = 1
          /\ \E l \in Locks : Holder(l, key)

\* The live documents of the key, with their numbers of copies.
LiveRecordsOf(key) ==
    [d \in LiveDocsOf(key) |-> docs[d]]

\* A step of the sweep removes documents whose expiresAt has passed and
\* leaves every live document, and every Lock value, as it is.
SweepRemovesOnlyStale ==
    last'.op = "sweep"
        => /\ docs' \sqsubseteq docs /\ docs' # docs
           /\ \A key \in Keys : LiveRecordsOf(key)' = LiveRecordsOf(key)
           /\ locks' = locks

\* C13.  The lock does not depend on the expiry sweep: the sweep removes
\* only documents whose expiresAt has passed; and a try_acquire that the
\* store answers returns a handle exactly when its key has no live document,
\* the stale documents of the key swept or still there (no handle while a
\* live document exists, a handle once the lease has run out), and returns
\* none while a Lock value of the key is held and unexpired.
C13_SweepIndependence ==
    [][/\ SweepRemovesOnlyStale
       /\ (last'.op = "try_acquire" /\ ~StoreFailed(last'.reply))
             => (last'.res = "Some" <=> LiveDocsOf(last'.key) = {})
       /\ (last'.op = "try_acquire" /\ \E l \in Locks : Holder(l, last'.key))
             => last'.res # "Some"]_vars

\* C14.  prepare_database is idempotent: in every state the collection has
\* at most one secondary index, the TTL index on expiresAt with threshold
\* zero; a call changes no document, no Lock value and not the clock; a call
\* the store answers returns Ok and leaves exactly that index; and a call
\* made when the index exists, answered or not, leaves the indexes as they
\* are.
C14_PrepareIdempotent ==
    /\ [](/\ Cardinality(indexes) <= 1
          /\ \A i \in indexes : i.keys = "expiresAt" /\ i.expire_after = 0)
    /\ [][last'.op = "prepare_database"
            => /\ docs' = docs /\ locks' = locks /\ clock' = clock
               /\ indexes # {} => indexes' = indexes
               /\ PrepareDatabase("none")
                     => /\ last'.res = "unit"
                        /\ Cardinality(indexes') = 1
               /\ last'.res = "unit" => Cardinality(indexes') = 1]_vars

\* C14 witness: prepare_database has been called again, between lock
\* operations (a document and a held Lock value exist), when the index
\* existed: the store built nothing and the call returned Ok.
C14_Witness ==
    /\ last.op = "prepare_database" /\ last.res = "unit"
    /\ last.reply.kind = "ok" /\ last.reply.n = 0
    /\ Cardinality(indexes) = 1
    /\ docs # EmptyBag
    /\ \E l \in Locks : l.acquired

\* C15.  A try_acquire(key, ttl) that the store answers returns a handle if
\* and only if, when its upsert is applied, the key has no document or has a
\* document with expiresAt <= now; after a success the key has exactly one
\* document and its expiresAt is now + ttl, now being the clock reading of
\* the call.
C15_AcquireCondition ==
    [][\A key \in Keys, ttl \in Ttls :
          TryAcquire(key, ttl, "none")
          => LET t == now_and_expires_at(ttl)
             IN  /\ last'.res = "Some"
                       <=> \/ DocsOf(key) = {}
                           \/ \E d \in DocsOf(key) : d.expiresAt <= t.now
                 /\ last'.res = "Some"
                       => /\ DocsOf(key)' = {Doc(key, t.expires_at)}
                          /\ Count(DocsOf(key))' = 1]_vars

\* C16.  Race on a free or stale key: the processes' calls are applied by
\* the store one after the other.  A try_acquire with a positive ttl that
\* is applied while the key has no live document returns a handle and
\* leaves the key one live document; every such call applied after it,
\* while that document is live, returns Ok(None) and changes nothing; none
\* of them returns an error.  So of the calls racing for the key exactly
\* the first applied gets the handle.
C16_RaceOneWinner ==
    [][\A key \in Keys, ttl \in 1..MaxTtl :
          TryAcquire(key, ttl, "none")
          => /\ last'.res # "Err"
             /\ LiveDocsOf(key) = {}
                   => /\ last'.res = "Some"
                      /\ Count(LiveDocsOf(key))' = 1
                      /\ HeldCount(key)' = HeldCount(key) + 1
             /\ LiveDocsOf(key) # {}
                   => /\ last'.res = "None"
                      /\ docs' = docs /\ locks' = locks]_vars

\* C16 witness: a try_acquire has lost the race: its insert met the
\* duplicate key error and it returned Ok(None), the key having its one
\* live document and one Lock value, held and unexpired.
C16_Witness ==
    /\ last.op = "try_acquire" /\ last.res = "None"
    /\ last.reply = WriteErrorReply(DUPLICATE_KEY)
    /\ Count(LiveDocsOf(last.key)) = 1
    /\ HeldCount(last.key) = 1
    /\ \E l \in Locks : Holder(l, last.key)

\* C17.  Mutual exclusion rests on synchronized clocks: a try_acquire judges
\* the document of a holder by the clock reading of its own process.  While
\* a Lock value is held and its lease, the document of the key, is unexpired
\* by the clock of its process, a try_acquire by a process that reads the
\* same clock returns no handle; a try_acquire by a process whose clock is
\* ahead of the holder's by at least the rest of the lease returns a handle
\* and replaces the holder's document.
C17_SynchronizedClocks ==
    [][\A key \in Keys, ttl \in Ttls, skew \in Skews, l \in Locks :
          (/\ Holder(l, key)
           /\ RecordsOf(key) = SetToBag({Doc(key, l.expiresAt)})
           /\ TryAcquireAhead(key, ttl, "none", skew))
          => /\ skew = l.ahead => last'.res # "Some"
             /\ SystemTimeNow(skew) >= l.expiresAt
                   => /\ last'.res = "Some"
                      /\ \E h \in Locks' : Holder(h, key)' /\ h = l]_vars

\* No step of a Lock value renews a lease: release and drop add no document
\* and change no expiresAt; they can only remove a document.
NoRenewal ==
    last'.op \in {"release", "drop"} => docs' \sqsubseteq docs

\* C18 as stated.  A try_acquire that returns no handle, or an error,
\* leaves the collection as it is; and no operation of a handle renews its
\* lease.
C18_FailedAcquireChangesNothing ==
    [][/\ (last'.op = "try_acquire" /\ last'.res \in {"None", "Err"})
             => docs' = docs
       /\ NoRenewal]_vars

\* C18 amended.  A try_acquire that returns Ok(None) leaves the collection
\* as it is.  One that returns an error leaves it as it is, unless the store
\* had applied the upsert before the failure was reported: then the key, which
\* had no live document, has the one document the upsert wrote, and nothing
\* else has changed.  No try_acquire, whatever it returns, changes or removes
\* a live document, so the attempts of contenders never extend or shorten an
\* unexpired lease; and no operation of a handle renews its lease.
C18_FailedAcquireAmended ==
    [][/\ (last'.op = "try_acquire" /\ last'.res = "None") => docs' = docs
       /\ \A key \in Keys :
             (last'.op = "try_acquire" /\ last'.key = key /\ last'.res = "Err")
             => \/ docs' = docs
                \/ /\ last'.reply.kind = "error"
                   /\ LiveDocsOf(key) = {}
                   /\ \E ttl \in Ttls :
                         RecordsOf(key)' = SetToBag({Doc(key, clock + ttl)})
                   /\ \A k2 \in Keys \ {key} :
                         RecordsOf(k2)' = RecordsOf(k2)
       /\ last'.op = "try_acquire"
             => \A key \in Keys : \A d \in LiveDocsOf(key) :
                   CopiesIn(d, docs') = CopiesIn(d, docs)
       /\ NoRenewal]_vars

\* C18 witness: a try_acquire has returned an error, the store having
\* applied its upsert: the key has a document and no Lock value exists.
C18_Witness ==
    /\ last.op = "try_acquire" /\ last.res = "Err"
    /\ last.reply = OtherErrorReply
    /\ Count(DocsOf(last.key)) = 1
    /\ locks = EmptyBag

\* C19.  A try_acquire with ttl > 0 that returns a handle leaves a document
\* that is live at that moment (expiresAt > now); with ttl = 0 it returns a
\* held Lock value and leaves a document that is stale already (expiresAt =
\* now).  So while a Lock value is held whose document is stale, at the time
\* of its acquisition or later, a further try_acquire on the key, the store
\* answering, returns a handle too, and the first Lock value is still held.
C19_ZeroTtlLease ==
    [][\A key \in Keys, ttl \in Ttls :
          TryAcquire(key, ttl, "none")
          => LET t == now_and_expires_at(ttl)
             IN  /\ (ttl > 0 /\ last'.res = "Some")
                       => /\ RecordsOf(key)' = SetToBag({Doc(key, t.expires_at)})
                          /\ t.expires_at > t.now
                          /\ Count(LiveDocsOf(key))' = 1
                 /\ (ttl = 0 /\ last'.res = "Some")
                       => /\ RecordsOf(key)' = SetToBag({Doc(key, t.now)})
                          /\ LiveDocsOf(key)' = {}
                          /\ BagIn(NewLock(key, t.now), locks')
                 /\ \A l \in Locks :
                       (/\ l.id = key /\ l.acquired
                        /\ l.expiresAt <= t.now
                        /\ RecordsOf(key) = SetToBag({Doc(key, l.expiresAt)}))
                       => /\ last'.res = "Some"
                          /\ BagIn(l, locks')]_vars
====
